---- MODULE Spec2Model ----
(***************************************************************************)
(* Model of src/main.py: a FastAPI service that cleans an uploaded table,  *)
(* stores the result under temp_files/, mints a one-time download token    *)
(* after a verified Paystack webhook, serves the file once, and sweeps     *)
(* files older than 24 hours.                                              *)
(*                                                                         *)
(* All three request handlers are `async def` and run on one event loop,   *)
(* so a handler runs without interruption between two of its `await`s.     *)
(* clean_data and verify_payment await once, before they touch any shared  *)
(* state (file.read(), request.json()); download_csv never awaits; the     *)
(* sweep awaits only its hourly sleep.  A pending request therefore is a   *)
(* handler suspended at its first await (or not yet started), and the rest *)
(* of each handler is one atomic action.                                   *)
(*                                                                         *)
(* Time is counted in hours.  uuid4 values are modelled as fresh counters. *)
(* The background task cleanup_old_files is taken to be running on the     *)
(* event loop that serves the requests, as the start-up code intends.      *)
(***************************************************************************)
EXTENDS Integers, Sequences, FiniteSets, TLC

VARIABLES
    cleaned_files,      \* dict: cleaned file name -> path under temp_files/
    verified_payments,  \* dict: download token -> cleaned file name
    disk,               \* temp_files/: path -> [mtime, content]
    now,                \* wall clock, hours
    nextFile,           \* number of uuid4 file names drawn so far, plus one
    nextToken,          \* number of uuid4 tokens drawn so far, plus one
    req,                \* per client: the request in flight
    resp,               \* per client: the response to its last request
    sweeper,            \* the cleanup_old_files task
    contents,           \* cleaning pipeline: the table as uploaded
    df,                 \* cleaning pipeline: the table being cleaned
    opts,               \* cleaning pipeline: the form options of the request
    stage               \* cleaning pipeline: position in clean_data

svars == <<cleaned_files, verified_payments, disk, now, nextFile, nextToken,
           req, resp, sweeper>>
pvars == <<contents, df, opts, stage>>
vars == <<cleaned_files, verified_payments, disk, now, nextFile, nextToken,
          req, resp, sweeper, contents, df, opts, stage>>

----------------------------------------------------------------------------
(* Bounds of the model *)

MaxFiles == 2
MaxTokens == 2
MaxTime == 25

(* Amounts by which the clock is observed to advance between two steps: a   *)
(* file is new, exactly 24 hours old, or 25 hours old at a sweep.           *)
TickSteps == {24, 25}

Clients == {"c1", "c2"}

(* Program constants *)
MaxAgeHours == 24
SleepHours == 1

----------------------------------------------------------------------------
(* Values *)

File(n) == <<"file", n>>
Token(n) == <<"token", n>>
None == <<"none", 0>>

FileNames == {File(n) : n \in 1..MaxFiles}
Tokens == {Token(n) : n \in 1..MaxTokens}

(* Uploads: what the pipeline of clean_data makes of them.  The first       *)
(* cleans to a non-empty table, the second has an unsupported extension.   *)
(* The n-th stored table has content n: every upload carries its own data. *)
GoodUploads == {"data.csv"}
BadUploads == {"data.exe"}

(* Webhook bodies.  json = FALSE is a body request.json() cannot parse;     *)
(* reference = "" is a body without data.reference.                         *)
References == {"ref_paid", "ref_failed", "ref_unknown", "ref_neterr"}
Payloads ==
    {[json |-> FALSE, event |-> "", reference |-> ""],
     [json |-> TRUE, event |-> "transfer.success", reference |-> "ref_paid"],
     [json |-> TRUE, event |-> "charge.success", reference |-> ""]}
    \cup {[json |-> TRUE, event |-> "charge.success", reference |-> r] :
            r \in References}
NoPayload == [json |-> FALSE, event |-> "none", reference |-> ""]

Idle == [op |-> "idle", upload |-> "", payload |-> NoPayload, token |-> None]
CleanReq(u) == [op |-> "clean", upload |-> u, payload |-> NoPayload, token |-> None]
WebhookReq(p) == [op |-> "webhook", upload |-> "", payload |-> p, token |-> None]
DownloadReq(t) == [op |-> "download", upload |-> "", payload |-> NoPayload, token |-> t]

Requests ==
    {CleanReq(u) : u \in GoodUploads \cup BadUploads}
    \cup {WebhookReq(p) : p \in Payloads}
    \cup {DownloadReq(t) : t \in Tokens}

(* A response: the HTTP status code and the fields of the JSON body the     *)
(* claims are about; `to` is the request it answers.                        *)
Response(r, code, status, message, token, content) ==
    [to |-> r, code |-> code, status |-> status, message |-> message,
     download_token |-> token, csv_content |-> content]
NoResp == Response(Idle, 0, "", "", None, 0)

----------------------------------------------------------------------------
(* Helpers on dicts and the directory *)

Put(d, k, v) == [x \in DOMAIN d \cup {k} |-> IF x = k THEN v ELSE d[x]]
Del(d, k) == [x \in DOMAIN d \ {k} |-> d[x]]

(* Path(path).exists() *)
Exists(path) == path \in DOMAIN disk

(* TEMP_DIR / cleaned_filename *)
PathOf(name) == name

----------------------------------------------------------------------------
(* A client sends a request; the event loop holds it until its handler runs *)
Arrive(c, r) ==
    /\ req[c].op = "idle"
    /\ req' = [req EXCEPT ![c] = r]
    /\ resp' = [resp EXCEPT ![c] = NoResp]
    /\ UNCHANGED <<cleaned_files, verified_payments, disk, now, nextFile,
                   nextToken, sweeper, pvars>>

Reply(c, r) ==
    /\ resp' = [resp EXCEPT ![c] = r]
    /\ req' = [req EXCEPT ![c] = Idle]

----------------------------------------------------------------------------
(* POST /clean-data/ : store the cleaned table, or swallow the error *)
clean_data(c) ==
    /\ req[c].op = "clean"
    /\ req[c].upload \in GoodUploads => nextFile <= MaxFiles
    /\ IF req[c].upload \in GoodUploads
       THEN LET cleaned_filename == File(nextFile)
                cleaned_path == PathOf(cleaned_filename)
            IN /\ disk' = Put(disk, cleaned_path,
                              [mtime |-> now, content |-> nextFile])
               /\ cleaned_files' = Put(cleaned_files, cleaned_filename, cleaned_path)
               /\ nextFile' = nextFile + 1
               /\ Reply(c, Response(req[c], 200, "success", "", cleaned_filename, 0))
       ELSE /\ Reply(c, Response(req[c], 200, "error", "Unsupported file type", None, 0))
            /\ UNCHANGED <<disk, cleaned_files, nextFile>>
    /\ UNCHANGED <<verified_payments, now, nextToken, sweeper, pvars>>

----------------------------------------------------------------------------
(* The gateway's answer to GET /transaction/verify/<reference>: parsed is   *)
(* FALSE when the call or response.json() raises.                           *)
PaystackVerify(reference) ==
    CASE reference = "ref_paid" ->
            [parsed |-> TRUE, status |-> TRUE, data_status |-> "success"]
      [] reference = "ref_failed" ->
            [parsed |-> TRUE, status |-> TRUE, data_status |-> "failed"]
      [] reference = "ref_unknown" ->
            [parsed |-> TRUE, status |-> FALSE, data_status |-> ""]
      [] OTHER ->
            [parsed |-> FALSE, status |-> FALSE, data_status |-> ""]

(* Faulty variant: only the envelope's status is looked at. *)
PaymentVerified_envelope_only(payment_data) ==
    payment_data.status

(* payment_data.get("status") and payment_data["data"].get("status") == "success" *)
PaymentVerified(payment_data) ==
    payment_data.status /\ payment_data.data_status = "success"

(* for filename, path in cleaned_files.items(): if Path(path).exists():     *)
(* the dict iterates in insertion order, which is the order of creation.    *)
StillPresent == {f \in DOMAIN cleaned_files : Exists(cleaned_files[f])}
FirstFound ==
    CHOOSE f \in StillPresent : \A g \in StillPresent : f[2] <= g[2]

(* POST /paystack/webhook/ *)
verify_payment(c) ==
    /\ req[c].op = "webhook"
    /\ LET payload == req[c].payload
           payment_data == PaystackVerify(payload.reference)
           called == payload.json /\ payload.event = "charge.success"
                        /\ payload.reference # ""
           minting == called /\ payment_data.parsed /\ PaymentVerified(payment_data)
       IN /\ minting => nextToken <= MaxTokens
          /\ IF ~payload.json
             THEN /\ Reply(c, Response(req[c], 200, "error", "JSONDecodeError", None, 0))
                  /\ UNCHANGED <<verified_payments, nextToken>>
             ELSE IF payload.event # "charge.success"
             THEN /\ Reply(c, Response(req[c], 200, "error", "Invalid event", None, 0))
                  /\ UNCHANGED <<verified_payments, nextToken>>
             ELSE IF payload.reference = ""
             THEN /\ Reply(c, Response(req[c], 200, "error", "KeyError", None, 0))
                  /\ UNCHANGED <<verified_payments, nextToken>>
             ELSE IF ~payment_data.parsed
             THEN /\ Reply(c, Response(req[c], 200, "error", "RequestException", None, 0))
                  /\ UNCHANGED <<verified_payments, nextToken>>
             ELSE IF ~PaymentVerified(payment_data)
             THEN /\ Reply(c, Response(req[c], 200, "error",
                                       "Payment verification failed", None, 0))
                  /\ UNCHANGED <<verified_payments, nextToken>>
             ELSE LET download_token == Token(nextToken)
                  IN /\ nextToken' = nextToken + 1
                     /\ IF StillPresent # {}
                        THEN /\ verified_payments' =
                                    Put(verified_payments, download_token, FirstFound)
                             /\ Reply(c, Response(req[c], 200, "success",
                                                  "Payment verified", download_token, 0))
                        ELSE /\ UNCHANGED verified_payments
                             /\ Reply(c, Response(req[c], 200, "error",
                                                  "No cleaned files found", None, 0))
    /\ UNCHANGED <<cleaned_files, disk, now, nextFile, sweeper, pvars>>

----------------------------------------------------------------------------
(* Faulty variant: the file's existence on disk is not checked. *)
FileNotFound_mapping_only(filename) ==
    filename \notin DOMAIN cleaned_files

(* if not file_path or not Path(file_path).exists() *)
FileNotFound(filename) ==
    IF filename \in DOMAIN cleaned_files
    THEN ~Exists(cleaned_files[filename])
    ELSE TRUE

(* Faulty variant: the token is left in the dict. *)
PaymentsWithout_kept(token) == verified_payments

(* del verified_payments[token] *)
PaymentsWithout(token) == Del(verified_payments, token)

(* Faulty variant: the handler awaits between its checks and the read (an   *)
(* asynchronous file read), so another handler can run in between.  While   *)
(* it is suspended the handler's local `filename` is kept in resp[c].       *)
download_csv_suspending(c) ==
    /\ req[c].op = "download"
    /\ LET token == req[c].token
           suspended == resp[c].message = "suspended"
       IN IF ~suspended /\ token \notin DOMAIN verified_payments
          THEN /\ Reply(c, Response(req[c], 403, "", "Invalid or expired token", None, 0))
               /\ UNCHANGED <<verified_payments, cleaned_files, disk>>
          ELSE IF ~suspended /\ FileNotFound(verified_payments[token])
          THEN /\ Reply(c, Response(req[c], 404, "", "File not found", None, 0))
               /\ UNCHANGED <<verified_payments, cleaned_files, disk>>
          ELSE IF ~suspended
          THEN /\ resp' = [resp EXCEPT ![c] =
                             Response(Idle, 0, "", "suspended", verified_payments[token], 0)]
               /\ UNCHANGED <<req, verified_payments, cleaned_files, disk>>
          ELSE LET filename == resp[c].download_token
                   file_path == PathOf(filename)
               IN IF ~Exists(file_path)
                  THEN /\ Reply(c, Response(req[c], 500, "", "FileNotFoundError", None, 0))
                       /\ UNCHANGED <<verified_payments, cleaned_files, disk>>
                  ELSE /\ disk' = Del(disk, file_path)
                       /\ verified_payments' = PaymentsWithout(token)
                       /\ cleaned_files' = Del(cleaned_files, filename)
                       /\ Reply(c, Response(req[c], 200, "success",
                                            "Download link is ready", None,
                                            disk[file_path].content))
    /\ UNCHANGED <<now, nextFile, nextToken, sweeper, pvars>>

(* GET /download/{token} : the handler has no await, it runs as one step.   *)
(* open() on a missing path, or on None, raises before anything is deleted: *)
(* the framework answers 500.                                               *)
download_csv(c) ==
    /\ req[c].op = "download"
    /\ LET token == req[c].token
       IN IF token \notin DOMAIN verified_payments
          THEN /\ Reply(c, Response(req[c], 403, "", "Invalid or expired token", None, 0))
               /\ UNCHANGED <<verified_payments, cleaned_files, disk>>
          ELSE LET filename == verified_payments[token]
               IN IF FileNotFound(filename)
                  THEN /\ Reply(c, Response(req[c], 404, "", "File not found", None, 0))
                       /\ UNCHANGED <<verified_payments, cleaned_files, disk>>
                  ELSE IF filename \notin DOMAIN cleaned_files
                  THEN /\ Reply(c, Response(req[c], 500, "", "TypeError", None, 0))
                       /\ UNCHANGED <<verified_payments, cleaned_files, disk>>
                  ELSE IF ~Exists(cleaned_files[filename])
                  THEN /\ Reply(c, Response(req[c], 500, "", "FileNotFoundError", None, 0))
                       /\ UNCHANGED <<verified_payments, cleaned_files, disk>>
                  ELSE LET file_path == cleaned_files[filename]
                           csv_content == disk[file_path].content
                       IN /\ disk' = Del(disk, file_path)
                          /\ verified_payments' = PaymentsWithout(token)
                          /\ cleaned_files' = Del(cleaned_files, filename)
                          /\ Reply(c, Response(req[c], 200, "success",
                                               "Download link is ready", None, csv_content))
    /\ UNCHANGED <<now, nextFile, nextToken, sweeper, pvars>>

----------------------------------------------------------------------------
(* datetime.fromtimestamp(file.stat().st_mtime) < now - timedelta(hours=24) *)
Expired(path) == disk[path].mtime < now - MaxAgeHours

(* Faulty variant: the pass first collects the expired files, yields to the *)
(* event loop, and unlinks them afterwards.                                 *)
cleanup_old_files_yielding ==
    /\ IF sweeper.state = "sleeping"
       THEN /\ sweeper.slept >= SleepHours
            /\ sweeper' = [state |-> "unlinking", slept |-> sweeper.slept,
                           listed |-> {q \in DOMAIN disk : Expired(q)}]
            /\ UNCHANGED disk
       ELSE /\ sweeper.state = "unlinking"
            /\ IF sweeper.listed \subseteq DOMAIN disk
               THEN /\ disk' = [p \in DOMAIN disk \ sweeper.listed |-> disk[p]]
                    /\ sweeper' = [state |-> "sleeping", slept |-> 0, listed |-> {}]
               ELSE /\ sweeper' = [state |-> "crashed", slept |-> sweeper.slept,
                                   listed |-> {}]
                    /\ UNCHANGED disk
    /\ UNCHANGED <<cleaned_files, verified_payments, now, nextFile, nextToken,
                   req, resp, pvars>>

(* One pass of the loop of cleanup_old_files, then asyncio.sleep(3600).     *)
(* The for loop holds no await: the pass is one step of the event loop.     *)
cleanup_old_files ==
    /\ sweeper.state = "sleeping"
    /\ sweeper.slept >= SleepHours
    /\ disk' = [p \in {q \in DOMAIN disk : ~Expired(q)} |-> disk[p]]
    /\ sweeper' = [state |-> "sleeping", slept |-> 0, listed |-> {}]
    /\ UNCHANGED <<cleaned_files, verified_payments, now, nextFile, nextToken,
                   req, resp, pvars>>

Min(a, b) == IF a <= b THEN a ELSE b

(* Time passes; the timer of asyncio.sleep runs with it, and nothing is     *)
(* gained by counting it past its expiry.                                   *)
Tick(d) ==
    /\ now + d <= MaxTime
    /\ now' = now + d
    /\ sweeper' = [sweeper EXCEPT !.slept = Min(@ + d, SleepHours)]
    /\ UNCHANGED <<cleaned_files, verified_payments, disk, nextFile, nextToken,
                   req, resp, pvars>>

----------------------------------------------------------------------------
EmptyDict == [x \in {} |-> None]
NoTable == [columns |-> <<>>, rows |-> <<>>]
NoOpts == [missing_value_strategy |-> "", remove_duplicates |-> FALSE]

ServiceInit ==
    /\ cleaned_files = EmptyDict
    /\ verified_payments = EmptyDict
    /\ disk = EmptyDict
    /\ now = 0
    /\ nextFile = 1
    /\ nextToken = 1
    /\ req = [c \in Clients |-> Idle]
    /\ resp = [c \in Clients |-> NoResp]
    /\ sweeper = [state |-> "sleeping", slept |-> SleepHours, listed |-> {}]

NoPipeline ==
    /\ contents = NoTable
    /\ df = NoTable
    /\ opts = NoOpts
    /\ stage = "none"

Init ==
    /\ ServiceInit
    /\ NoPipeline

(* The service under clients that send requests of the set R *)
Serve(R) ==
    \E c \in Clients :
        \/ \E r \in R : Arrive(c, r)
        \/ clean_data(c)
        \/ verify_payment(c)
        \/ download_csv(c)

Handlers == Serve(Requests)

Next ==
    \/ Handlers
    \/ cleanup_old_files
    \/ \E d \in TickSteps : Tick(d)

Spec == Init /\ [][Next]_vars

(* The requests that store, bind and consume files *)
FileRequests ==
    {CleanReq(u) : u \in GoodUploads}
    \cup {WebhookReq([json |-> TRUE, event |-> "charge.success",
                      reference |-> "ref_paid"])}
    \cup {DownloadReq(t) : t \in Tokens}

FairNext ==
    \/ Serve(FileRequests)
    \/ cleanup_old_files
    \/ \E d \in TickSteps : Tick(d)

(* The service under those requests; the event loop resumes the sweep once  *)
(* its sleep has expired.                                                   *)
FairSpec == Init /\ [][FairNext]_vars /\ WF_vars(cleanup_old_files)

(* Runs in which the background task performs no pass. *)
SpecNoSweep == Init /\ [][Handlers]_vars

----------------------------------------------------------------------------
(* The cleaning pipeline of clean_data.  A column name is a sequence of     *)
(* characters; a cell is null (NaN), a number or a string.                  *)

MaxNameLen == 4
MaxRows == 3

Alphabet == {"A", " ", ".", "1"}
Digits == {"0", "1", "2", "3", "4", "5", "6", "7", "8", "9"}

Null == [kind |-> "null", num |-> 0, str |-> ""]
Num(n) == [kind |-> "num", num |-> n, str |-> ""]
Str(x) == [kind |-> "str", num |-> 0, str |-> x]

Range(f) == {f[i] : i \in DOMAIN f}

(* str.strip() *)
RECURSIVE lstrip(_)
lstrip(name) ==
    IF name # <<>> /\ Head(name) = " " THEN lstrip(Tail(name)) ELSE name

RECURSIVE rstrip(_)
rstrip(name) ==
    IF name # <<>> /\ name[Len(name)] = " "
    THEN rstrip(SubSeq(name, 1, Len(name) - 1))
    ELSE name

strip(name) == rstrip(lstrip(name))

(* str.lower() *)
lower(name) == [i \in 1..Len(name) |-> IF name[i] = "A" THEN "a" ELSE name[i]]

(* The greedy \d+ of the pattern: what is left after the run of digits *)
RECURSIVE after_digits(_)
after_digits(name) ==
    IF name # <<>> /\ Head(name) \in Digits THEN after_digits(Tail(name)) ELSE name

(* str.replace(r'\.\d+', '', regex=True): every match, left to right *)
RECURSIVE remove_dot_digits(_)
remove_dot_digits(name) ==
    IF name = <<>>
    THEN <<>>
    ELSE IF Head(name) = "." /\ Len(name) >= 2 /\ name[2] \in Digits
    THEN remove_dot_digits(after_digits(Tail(name)))
    ELSE <<Head(name)>> \o remove_dot_digits(Tail(name))

(* df.columns.str.strip().str.lower().str.replace(r'\.\d+', '', regex=True) *)
standardize(name) == remove_dot_digits(lower(strip(name)))

(* The line that standardizes the column names; run a second time on its    *)
(* own output to compare one run with two.                                  *)
standardize_columns ==
    /\ stage \in {"parsed", "standardized"}
    /\ df' = [df EXCEPT !.columns = [i \in DOMAIN @ |-> standardize(@[i])]]
    /\ stage' = IF stage = "parsed" THEN "standardized" ELSE "standardized again"
    /\ UNCHANGED <<svars, contents, opts>>

(* Column j of a table, and the dtype pandas gives it when the file is      *)
(* read: object with a string, float64 with a missing number, else int64.   *)
Column(table, j) == [i \in 1..Len(table.rows) |-> table.rows[i][j]]

dtype(table, j) ==
    IF \E i \in 1..Len(table.rows) : table.rows[i][j].kind = "str"
    THEN "object"
    ELSE IF \E i \in 1..Len(table.rows) : table.rows[i][j] = Null
    THEN "float64"
    ELSE "int64"

(* Faulty variant: the test names the wrong numeric dtype. *)
fill_value_int64(column_dtype) ==
    IF column_dtype = "int64" THEN Num(0) ELSE Str("Unknown")

(* if df[col].dtype == "float64": fillna(0) else: fillna("Unknown") *)
fill_value(column_dtype) ==
    IF column_dtype = "float64" THEN Num(0) ELSE Str("Unknown")

(* df[col] is a DataFrame, without a dtype, when two columns share a name *)
DuplicateNames(columns) ==
    \E i, j \in DOMAIN columns : i # j /\ columns[i] = columns[j]

RECURSIVE dropna(_)
dropna(rows) ==
    IF rows = <<>>
    THEN <<>>
    ELSE IF Null \in Range(Head(rows))
    THEN dropna(Tail(rows))
    ELSE <<Head(rows)>> \o dropna(Tail(rows))

(* Handle missing values *)
handle_missing_values ==
    /\ stage = "selected"
    /\ IF opts.missing_value_strategy = "drop"
       THEN /\ df' = [df EXCEPT !.rows = dropna(@)]
            /\ stage' = "handled"
       ELSE IF opts.missing_value_strategy = "fill"
       THEN IF DuplicateNames(df.columns)
            THEN /\ stage' = "error"
                 /\ UNCHANGED df
            ELSE /\ df' = [df EXCEPT !.rows =
                             [i \in DOMAIN @ |->
                                [j \in DOMAIN @[i] |->
                                    IF @[i][j] = Null
                                    THEN fill_value(dtype(df, j))
                                    ELSE @[i][j]]]]
                 /\ stage' = "handled"
       ELSE /\ stage' = "handled"
            /\ UNCHANGED df
    /\ UNCHANGED <<svars, contents, opts>>

(* Faulty variant: the last of equal rows is kept. *)
RECURSIVE drop_duplicates_keep_last(_)
drop_duplicates_keep_last(rows) ==
    IF rows = <<>>
    THEN <<>>
    ELSE IF \E i \in 2..Len(rows) : rows[i] = Head(rows)
    THEN drop_duplicates_keep_last(Tail(rows))
    ELSE <<Head(rows)>> \o drop_duplicates_keep_last(Tail(rows))

RECURSIVE drop_duplicates_keep_first(_)
drop_duplicates_keep_first(rows) ==
    IF rows = <<>>
    THEN <<>>
    ELSE LET earlier == SubSeq(rows, 1, Len(rows) - 1)
             last == rows[Len(rows)]
         IN IF \E i \in 1..Len(earlier) : earlier[i] = last
            THEN drop_duplicates_keep_first(earlier)
            ELSE Append(drop_duplicates_keep_first(earlier), last)

(* df.drop_duplicates(inplace=True): keep="first" is the default *)
drop_duplicates(rows) == drop_duplicates_keep_first(rows)

(* Remove duplicate rows (if enabled) *)
remove_duplicate_rows ==
    /\ stage = "handled"
    /\ df' = IF opts.remove_duplicates
             THEN [df EXCEPT !.rows = drop_duplicates(@)]
             ELSE df
    /\ stage' = "deduplicated"
    /\ UNCHANGED <<svars, contents, opts>>

(* Inputs *)
Names == UNION {[1..n -> Alphabet] : n \in 0..MaxNameLen}
HeaderLists == {<<n>> : n \in Names} \cup {<<n, m>> : n \in Names, m \in Names}

ColumnLists == {<< <<"a">> >>, << <<"a">>, <<"b">> >>, << <<"a">>, <<"a">> >>}
Cells == {Null, Num(5), Str("x")}
RowLists(width) == UNION {[1..n -> [1..width -> Cells]] : n \in 0..MaxRows}
Tables ==
    UNION {{[columns |-> cols, rows |-> rows] : rows \in RowLists(Len(cols))} :
             cols \in ColumnLists}
Options ==
    [missing_value_strategy : {"fill", "drop", "none"}, remove_duplicates : BOOLEAN]

(* The table has been read; its column names are about to be standardized *)
HeaderInit ==
    /\ ServiceInit
    /\ contents \in {[columns |-> h, rows |-> <<>>] : h \in HeaderLists}
    /\ df = contents
    /\ opts = NoOpts
    /\ stage = "parsed"

SpecHeader == HeaderInit /\ [][standardize_columns]_vars

(* The columns have been standardized and selected *)
PipelineInit ==
    /\ ServiceInit
    /\ contents \in Tables
    /\ df = contents
    /\ opts \in Options
    /\ stage = "selected"

PipelineNext ==
    \/ handle_missing_values
    \/ remove_duplicate_rows

SpecPipeline == PipelineInit /\ [][PipelineNext]_vars

----------------------------------------------------------------------------
(* Claims about the cleaning pipeline *)

(* C6: standardizing the column names twice yields the same set of names as *)
(* standardizing them once.                                                 *)
C6_StandardizeIsIdempotent ==
    [][ (stage = "standardized" /\ stage' = "standardized again") =>
            Range(df'.columns) = Range(df.columns) ]_vars

(* The k-th smallest element of a set of numbers *)
Kth(S, k) == CHOOSE i \in S : Cardinality({j \in S : j <= i}) = k

(* C7: the step never adds a row; with remove_duplicates it keeps exactly   *)
(* the rows that have no equal row before them, in their order, and without *)
(* it it changes nothing.                                                   *)
C7_DedupKeepsFirstOccurrences ==
    [][ (stage = "handled" /\ stage' = "deduplicated") =>
            LET in == df.rows
                out == df'.rows
                first == {i \in 1..Len(in) : \A j \in 1..(i - 1) : in[j] # in[i]}
            IN /\ Len(out) <= Len(in)
               /\ df'.columns = df.columns
               /\ IF opts.remove_duplicates
                  THEN /\ Len(out) = Cardinality(first)
                       /\ \A k \in 1..Len(out) : out[k] = in[Kth(first, k)]
                  ELSE out = in
      ]_vars

(* Three rows, the third equal to the first and not to the second, went     *)
(* through the step untouched before it: the first two are what is left.    *)
C7_Witness ==
    /\ stage = "deduplicated"
    /\ opts.remove_duplicates
    /\ opts.missing_value_strategy = "none"
    /\ Len(contents.rows) = 3
    /\ Len(contents.columns) = 2
    /\ contents.rows[1] = contents.rows[3]
    /\ contents.rows[1] # contents.rows[2]
    /\ df.rows = <<contents.rows[1], contents.rows[2]>>

(* A column is numeric when none of its cells is a string *)
NumericColumn(table, j) ==
    \A i \in 1..Len(table.rows) : table.rows[i][j].kind # "str"

(* C8: after the fill strategy no cell is null: a cell that was null holds  *)
(* 0 in a numeric column and "Unknown" in any other, and every other cell   *)
(* is what it was.                                                          *)
C8_FillLeavesNoNull ==
    (stage = "handled" /\ opts.missing_value_strategy = "fill") =>
        /\ Len(df.rows) = Len(contents.rows)
        /\ df.columns = contents.columns
        /\ \A i \in 1..Len(df.rows) : \A j \in 1..Len(df.columns) :
              /\ df.rows[i][j] # Null
              /\ contents.rows[i][j] # Null => df.rows[i][j] = contents.rows[i][j]
              /\ contents.rows[i][j] = Null =>
                    df.rows[i][j] = IF NumericColumn(contents, j)
                                    THEN Num(0)
                                    ELSE Str("Unknown")

(* A table with a missing number and a missing string has been filled *)
C8_Witness ==
    /\ stage = "handled"
    /\ opts.missing_value_strategy = "fill"
    /\ \E i \in 1..Len(df.rows) :
          /\ contents.rows[i][1] = Null
          /\ df.rows[i][1] = Num(0)
    /\ \E i \in 1..Len(df.rows) :
          /\ Len(df.columns) = 2
          /\ contents.rows[i][2] = Null
          /\ df.rows[i][2] = Str("Unknown")

----------------------------------------------------------------------------
(* Claims about the token and file lifecycle *)

Completes(c, op) == req[c].op = op /\ req'[c].op = "idle"
Minted(t) == t[2] < nextToken
Known(t) == t \in DOMAIN verified_payments
Stored(t) ==
    /\ verified_payments[t] \in DOMAIN cleaned_files
    /\ cleaned_files[verified_payments[t]] \in DOMAIN disk

(* C1: a download token is single-use.  A download of a known token whose   *)
(* file still exists answers 200 with the content of that file and removes  *)
(* the token, the file key and the file; a token that was drawn and is no   *)
(* longer known is answered 403, and no step makes it known again.          *)
C1_TokenIsSingleUse ==
    [][ /\ \A c \in Clients :
              Completes(c, "download") =>
                  LET t == req[c].token
                  IN /\ (Known(t) /\ Stored(t)) =>
                            /\ resp'[c].code = 200
                            /\ resp'[c].status = "success"
                            /\ resp'[c].csv_content =
                                  disk[cleaned_files[verified_payments[t]]].content
                            /\ t \notin DOMAIN verified_payments'
                            /\ verified_payments[t] \notin DOMAIN cleaned_files'
                            /\ cleaned_files[verified_payments[t]] \notin DOMAIN disk'
                     /\ (Minted(t) /\ ~Known(t)) => resp'[c].code = 403
        /\ \A t \in Tokens :
              (Minted(t) /\ ~Known(t)) => t \notin DOMAIN verified_payments'
      ]_vars

(* One client holds the content served for a token, which is gone with its  *)
(* file key and its file, and another client's download of the same token   *)
(* was refused with 403.                                                    *)
C1_Witness ==
    \E c1, c2 \in Clients : \E t \in Tokens :
        /\ c1 # c2
        /\ resp[c1].to = DownloadReq(t)
        /\ resp[c1].code = 200
        /\ resp[c1].csv_content > 0
        /\ File(resp[c1].csv_content) \notin DOMAIN cleaned_files
        /\ File(resp[c1].csv_content) \notin DOMAIN disk
        /\ ~Known(t)
        /\ resp[c2].to = DownloadReq(t)
        /\ resp[c2].code = 403
        /\ resp[c2].csv_content = 0

(* The webhook call ends in a verified success: the body parses, the event  *)
(* is charge.success, a reference is present and the gateway reports the    *)
(* transaction as successful.                                               *)
VerifiedSuccess(p) ==
    /\ p.json
    /\ p.event = "charge.success"
    /\ p.reference # ""
    /\ PaystackVerify(p.reference).parsed
    /\ PaystackVerify(p.reference).status
    /\ PaystackVerify(p.reference).data_status = "success"

(* C2: a webhook call that does not end in a verified success leaves        *)
(* verified_payments and cleaned_files as they were and answers with status *)
(* "error" and no download_token; so does the handler's wait for the body.  *)
C2_FailedWebhookMintsNothing ==
    [][ \A c \in Clients :
          /\ (req[c].op = "idle" /\ req'[c].op = "webhook") =>
                /\ verified_payments' = verified_payments
                /\ cleaned_files' = cleaned_files
          /\ (Completes(c, "webhook") /\ ~VerifiedSuccess(req[c].payload)) =>
                /\ verified_payments' = verified_payments
                /\ cleaned_files' = cleaned_files
                /\ resp'[c].status = "error"
                /\ resp'[c].download_token = None
      ]_vars

(* A webhook whose transaction the gateway reports as failed was declined   *)
(* while a cleaned file was there to bind a token to.                       *)
C2_Witness ==
    \E c \in Clients :
        /\ resp[c].to.op = "webhook"
        /\ resp[c].to.payload.reference = "ref_failed"
        /\ resp[c].to.payload.event = "charge.success"
        /\ resp[c].status = "error"
        /\ StillPresent # {}
        /\ verified_payments = EmptyDict

(* C3: one pass of the sweep leaves exactly the entries whose file is not   *)
(* older than 24 hours, in the mapping and on disk.                         *)
C3_SweepLeavesExactlyYoungEntries ==
    [][ (sweeper.slept >= SleepHours /\ sweeper'.slept = 0) =>
          LET young == {k \in DOMAIN cleaned_files :
                            /\ cleaned_files[k] \in DOMAIN disk
                            /\ now - disk[cleaned_files[k]].mtime <= MaxAgeHours}
          IN /\ DOMAIN cleaned_files' = young
             /\ DOMAIN disk' = {cleaned_files[k] : k \in young}
      ]_vars

(* C4: a download is refused with 403 exactly when the token is unknown,    *)
(* with 404 exactly when the token is known and its file key or its file is *)
(* gone, and succeeds otherwise.                                            *)
C4_DownloadFailuresByState ==
    [][ \A c \in Clients :
          Completes(c, "download") =>
              LET t == req[c].token
                  gone == Known(t) /\ ~Stored(t)
              IN /\ resp'[c].code = 403 <=> ~Known(t)
                 /\ resp'[c].code = 404 <=> gone
                 /\ (Known(t) /\ ~gone) =>
                        (resp'[c].code = 200 /\ resp'[c].status = "success")
      ]_vars

(* A known token, its file key still recorded, its file swept from disk:    *)
(* the download was refused with 404.                                       *)
C4_Witness ==
    \E c \in Clients : \E t \in Tokens :
        /\ resp[c].to = DownloadReq(t)
        /\ resp[c].code = 404
        /\ Known(t)
        /\ verified_payments[t] \in DOMAIN cleaned_files
        /\ cleaned_files[verified_payments[t]] \notin DOMAIN disk

(* C5: without a sweep, every token that is still to be redeemed is bound   *)
(* to a file key that exists, with its file.                                *)
C5_EveryTokenRedeemable ==
    \A t \in DOMAIN verified_payments : Stored(t)

(* C9: of the downloads of one token by two clients at most one returns the *)
(* content, and no download ends in an unhandled error.                     *)
C9_ConcurrentDownloadsSerialized ==
    /\ \A c \in Clients :
          resp[c].to.op = "download" => resp[c].code \in {200, 403, 404}
    /\ \A c1, c2 \in Clients :
          (/\ c1 # c2
           /\ resp[c1].to.op = "download"
           /\ resp[c2].to = resp[c1].to)
          => ~(resp[c1].code = 200 /\ resp[c2].code = 200)

(* Two clients asked for the same token: one received the content, the      *)
(* other 403.  (A request in flight changes nothing, so the state is the    *)
(* same whether the second arrived before or after the first was served.)   *)
C9_Witness ==
    \E c1, c2 \in Clients :
        /\ c1 # c2
        /\ resp[c1].to.op = "download"
        /\ resp[c2].to = resp[c1].to
        /\ resp[c1].code = 200
        /\ resp[c2].code \in {403, 404}

====
